---- MODULE Spec2Model ----
(***************************************************************************)
(* A model of visible_cnn.py: the VoltorbFlipCNN network (shapes of its    *)
(* layers, load_weights, predict), the VoltorbFlipScreenshotDataset, the   *)
(* Trainer (train, evaluate, save_model, print_weights) and main().        *)
(*                                                                         *)
(* Numeric tensor values are abstracted: a training batch is its shape and *)
(* the dataset indices it was collated from, a parameter set is its origin *)
(* and the number of optimizer steps applied to it, a loss is the          *)
(* minibatch it was computed on.  Label tensors keep their values.         *)
(***************************************************************************)
EXTENDS Integers, Sequences, FiniteSets, TLC

(***************************************************************************)
(* Program constants.                                                      *)
(***************************************************************************)
N_CLASSES == 13
N_FEATURES == 45
BATCH_SIZE == 16
EPISODES == 50
FC2_OUT == 585
IMAGE_FOLDER == "./training_data/screenshots/"

\* transforms.Resize((32, 32)) followed by ToTensor(): 3 channels, 32 x 32.
TRANSFORM == [channels |-> 3, height |-> 32, width |-> 32]

\* The layers of VoltorbFlipCNN.__init__ (fc1's in_features is flattened_size).
conv1 == [in |-> 3, out |-> 32, kernel |-> 3, stride |-> 1, padding |-> 1]
conv2 == [in |-> 32, out |-> 64, kernel |-> 3, stride |-> 1, padding |-> 1]
conv3 == [in |-> 64, out |-> 128, kernel |-> 3, stride |-> 1, padding |-> 1]
FC1_OUT == 256

(***************************************************************************)
(* Bounds of the model.                                                    *)
(***************************************************************************)
\* The label tables (rows of visible_states.csv) have 0 .. MaxN rows, or MidN
\* rows (a training split of exactly one full minibatch), or LargeN rows
\* (several minibatches in both splits, the last ones partial).
MaxN == 6
MidN == 20
LargeN == 85
\* Up to this length every permutation is a possible randperm() result;
\* above it the permutations are the rotations by 0 .. MaxSeed-1.
MaxPermN == 3
MaxSeed == 2
\* Largest batch size handed to forward() on its own.
MaxBatch == 16

(***************************************************************************)
(* Arithmetic and sequence helpers.                                        *)
(***************************************************************************)
Min(a, b) == IF a < b THEN a ELSE b

Range(s) == {s[i] : i \in DOMAIN s}

\* Python's s[lo:hi] for 0 <= lo <= hi <= len(s).
Slice(s, lo, hi) == [i \in 1..(hi - lo) |-> s[lo + i]]

RECURSIVE SumSeq(_)
SumSeq(s) == IF s = <<>> THEN 0 ELSE Head(s) + SumSeq(Tail(s))

RECURSIVE Flatten(_)
Flatten(ss) == IF ss = <<>> THEN <<>> ELSE Head(ss) \o Flatten(Tail(ss))

DigitChar(d) ==
    CASE d = 0 -> "0" [] d = 1 -> "1" [] d = 2 -> "2" [] d = 3 -> "3"
      [] d = 4 -> "4" [] d = 5 -> "5" [] d = 6 -> "6" [] d = 7 -> "7"
      [] d = 8 -> "8" [] d = 9 -> "9"

\* str(n) for n >= 0: the decimal digits, most significant first.
RECURSIVE ToStr(_)
ToStr(n) == IF n < 10 THEN DigitChar(n) ELSE ToStr(n \div 10) \o DigitChar(n % 10)

(***************************************************************************)
(* Tensor shapes through the network.  A shape is a tuple of sizes; <<>>   *)
(* stands for the RuntimeError a layer raises on a shape it cannot take.   *)
(***************************************************************************)
ShapeError == <<>>

\* nn.Conv2d on (B, C, H, W): C must be in_channels.
Conv2d(layer, x) ==
    IF Len(x) # 4 \/ x[2] # layer.in THEN ShapeError
    ELSE LET h == (x[3] + 2 * layer.padding - layer.kernel) \div layer.stride + 1
             w == (x[4] + 2 * layer.padding - layer.kernel) \div layer.stride + 1
         IN  IF h < 1 \/ w < 1 THEN ShapeError ELSE <<x[1], layer.out, h, w>>

\* F.max_pool2d(x, k): kernel k, stride k, no padding, floor mode.
MaxPool2d(x, k) ==
    IF Len(x) # 4 \/ x[3] < k \/ x[4] < k THEN ShapeError
    ELSE <<x[1], x[2], x[3] \div k, x[4] \div k>>

\* x.view(x.size(0), -1)
ViewFlat(x) ==
    IF Len(x) # 4 THEN ShapeError ELSE <<x[1], x[2] * x[3] * x[4]>>

\* nn.Linear(in_features, out_features) on (B, in_features).
Linear(in_features, out_features, x) ==
    IF Len(x) # 2 \/ x[2] # in_features THEN ShapeError ELSE <<x[1], out_features>>

\* A stack with the second pooling left out; not what the layers compute.
ConvStack_OnePool(x) ==
    CHOOSE y \in
        { Conv2d(conv3, x3) : x3 \in
        { Conv2d(conv2, x2) : x2 \in
        { MaxPool2d(x1, 2) : x1 \in
        { Conv2d(conv1, x0) : x0 \in {x} } } } } : TRUE

\* The convolutional part shared by _get_flattened_size and forward: each
\* line's x is the layer applied to the x of the line before.
ConvStack(x) ==
    CHOOSE y \in
        { Conv2d(conv3, x4) : x4 \in
        { MaxPool2d(x3, 2) : x3 \in
        { Conv2d(conv2, x2) : x2 \in
        { MaxPool2d(x1, 2) : x1 \in
        { Conv2d(conv1, x0) : x0 \in {x} } } } } } : TRUE

\* _get_flattened_size: a dummy (1, 3, 32, 32) input through the conv layers,
\* x.view(1, -1).size(1).
GetFlattenedSize ==
    CHOOSE size \in { x[2] * x[3] * x[4] : x \in {ConvStack(<<1, 3, 32, 32>>)} } : TRUE

\* forward(): the shape of the output for an input of shape x.
ForwardShape(x) ==
    CHOOSE y \in
        { Linear(FC1_OUT, FC2_OUT, x7) : x7 \in
        { Linear(GetFlattenedSize, FC1_OUT, x6) : x6 \in
        { ViewFlat(x5) : x5 \in {ConvStack(x)} } } } : TRUE

(***************************************************************************)
(* Labels: one-hot encoding and arg-max decoding.                          *)
(***************************************************************************)
\* An encoding that puts the 1 one position early; not what one_hot does.
OneHot_OffByOne(labels, num_classes) ==
    [i \in 1..Len(labels) |-> [c \in 1..num_classes |-> IF c = labels[i] THEN 1 ELSE 0]]

\* F.one_hot(torch.tensor(labels), num_classes): one row of width
\* num_classes per label, a single 1 at the label's index.
OneHot(labels, num_classes) ==
    [i \in 1..Len(labels) |-> [c \in 1..num_classes |-> IF c - 1 = labels[i] THEN 1 ELSE 0]]

\* one_hot raises on a class value outside [0, num_classes).
OneHotRejects(labels, num_classes) ==
    \E i \in 1..Len(labels) : labels[i] < 0 \/ labels[i] >= num_classes

\* t.view(-1, width) of a flat tensor: consecutive groups of `width`.
View(flat, width) ==
    [g \in 1..(Len(flat) \div width) |-> [c \in 1..width |-> flat[(g - 1) * width + c]]]

\* torch.max(row): the index (from 0) of the first maximal value.
ArgMax(row) ==
    (CHOOSE c \in 1..Len(row) :
        /\ \A d \in 1..Len(row) : row[d] <= row[c]
        /\ \A d \in 1..(c - 1) : row[d] < row[c]) - 1

\* torch.max(t.view(-1, N_CLASSES), 1)[1] of a flat tensor.
Decode(flat) ==
    LET rows == View(flat, N_CLASSES)
    IN  [g \in 1..Len(rows) |-> ArgMax(rows[g])]

\* .flatten() of the (len, num_classes) one-hot tensor, row after row.
FlattenRows(rows, width) ==
    [j \in 1..(Len(rows) * width) |-> rows[((j - 1) \div width) + 1][((j - 1) % width) + 1]]

(***************************************************************************)
(* The files of a run: the label table, the screenshots, the weight file.  *)
(***************************************************************************)
\* A cell of the label table: the class of board cell i in screenshot r.
CellLabel(r, i) == (r + 2 * i) % N_CLASSES

\* Row r of visible_states.csv: an id column, then the class indices.
CsvRow(r, ncols) == <<r + 1>> \o [i \in 1..(ncols - 1) |-> CellLabel(r, i)]

\* The tables a run may read: well-formed (1 + N_FEATURES columns), with a
\* class index out of range in row 0, or one label column short.
CsvTable(n, fault) ==
    CASE fault = "bad_label" ->
           [r \in 1..n |-> IF r = 1 THEN [CsvRow(0, N_FEATURES + 1) EXCEPT ![2] = N_CLASSES]
                                    ELSE CsvRow(r - 1, N_FEATURES + 1)]
      [] fault = "short_rows" -> [r \in 1..n |-> CsvRow(r - 1, N_FEATURES)]
      [] OTHER -> [r \in 1..n |-> CsvRow(r - 1, N_FEATURES + 1)]

\* f"{idx}.png" under image_folder (os.path.join with a folder ending in "/").
ImgPath(image_folder, idx) == image_folder \o ToStr(idx) \o ".png"

\* The screenshot stored as <k>.png: an RGBA capture whose pixels are those of
\* screenshot k.
Screenshot(k) == [mode |-> "RGBA", size |-> <<256, 384>>, content |-> k]

\* The name of the k-th screenshot file: 0.png, 1.png, ...
PngName(k) == "./training_data/screenshots/" \o ToStr(k) \o ".png"

\* The screenshot directory: every <k>.png for k < n, except the missing ones.
ScreenshotDir(n, missing) ==
    [path \in {PngName(k) : k \in (0..(n - 1)) \ missing} |->
        Screenshot(CHOOSE k \in (0..(n - 1)) \ missing : PngName(k) = path)]

DatasetLens == (0..MaxN) \cup {MidN, LargeN}

Faults == {"none", "missing_image", "bad_label", "short_rows"}

NoFile == [exists |-> FALSE]
FileOf(state_dict) == [exists |-> TRUE, state_dict |-> state_dict]

\* A parameter set: where its values come from and how many optimizer steps
\* were applied to them since.
Weights(origin, steps) == [origin |-> origin, steps |-> steps]

(***************************************************************************)
(* Random permutations: torch.randperm(n) as a sequence of 0 .. n-1.       *)
(***************************************************************************)
Rotation(n, s) == [i \in 1..n |-> (i - 1 + s) % n]

\* The permutations random_split may draw.
RandPerms(n) ==
    IF n <= MaxPermN
    THEN {p \in [1..n -> 0..(n - 1)] : \A i, j \in 1..n : p[i] = p[j] => i = j}
    ELSE {Rotation(n, s) : s \in 0..(MaxSeed - 1)}

\* The orders a RandomSampler over n samples may draw for one pass.
SamplerOrders(n) == {Rotation(n, s) : s \in 0..(MaxSeed - 1)}

\* The order of a SequentialSampler.
SequentialOrder(n) == [i \in 1..n |-> i - 1]

(***************************************************************************)
(* State.                                                                  *)
(***************************************************************************)
VARIABLES
    entry,              \* __name__: "__main__" when run as a script
    \* files
    visible_states,     \* the label table read from visible_states.csv
    image_dir,          \* the screenshot directory: path -> image
    weight_file,        \* the file at MODEL_PATH
    \* main()
    pc,                 \* the statement main() is at
    error,              \* the uncaught exception that ended the run, or ""
    train_size, test_size,
    train_indices,      \* train_dataset.indices
    test_indices,       \* test_dataset.indices
    \* cnn_model and its optimizer
    params,             \* the parameters of cnn_model
    training,           \* cnn_model.training
    grad,               \* the losses whose gradients are summed in .grad
    \* Trainer.train
    episode, total_loss,
    order,              \* the sampler's order for the loader being iterated
    pos,                \* how many samples of `order` were handed out
    screenshots, labels, output, loss,
    \* Trainer.evaluate
    correct, total, decoded_output, decoded_labels, accuracy,
    stdout,             \* the lines printed
    \* history
    op,                 \* the operation that ran last
    trace,              \* the Trainer methods main() entered and left
    last_step,          \* params as the last optimizer.step() left them
    epoch_seen,         \* the dataset indices fetched in the current epoch
    eval_seen,          \* the predictions and targets evaluate() has compared
    \* one-hot encoding and forward() on their own
    oh_pc, oh_labels, oh_encoded, oh_decoded,
    fw_pc, fw_in, fw_x

fileVars == <<entry, visible_states, image_dir, weight_file>>
splitVars == <<train_size, test_size, train_indices, test_indices>>
modelVars == <<params, training, grad>>
trainVars == <<episode, total_loss, screenshots, labels, output, loss>>
iterVars == <<order, pos>>
evalVars == <<correct, total, decoded_output, decoded_labels, accuracy>>
histVars == <<trace, last_step, epoch_seen, eval_seen>>
pureVars == <<oh_pc, oh_labels, oh_encoded, oh_decoded, fw_pc, fw_in, fw_x>>
mainVars == <<pc, error, splitVars, modelVars, trainVars, iterVars, evalVars,
              stdout, op, histVars>>
vars == <<fileVars, mainVars, pureVars>>

\* A tensor: its shape, the dataset indices it was collated from and, where
\* the model keeps them, its values (one flat row per sample).
Tensor(shape, src, values) == [shape |-> shape, src |-> src, values |-> values]

NoTensor == Tensor(<<>>, <<>>, <<>>)
NoLoss == [episode |-> -1, batch |-> -1]
Unbuilt == Weights("unbuilt", 0)

(***************************************************************************)
(* VoltorbFlipScreenshotDataset.                                           *)
(***************************************************************************)
\* __len__
DatasetLen == Len(visible_states)

\* The row with its first column kept; not what values[1:] gives.
RowLabels_KeepId(idx) == visible_states[idx + 1]

\* self.visible_states.iloc[idx].values[1:]
RowLabels(idx) == Tail(visible_states[idx + 1])

\* Image.open(path).convert('RGB')
ConvertRGB(image) == [image EXCEPT !.mode = "RGB"]

\* TRANSFORM: Resize((32, 32)) then ToTensor().
Transform(image) ==
    [shape |-> <<TRANSFORM.channels, TRANSFORM.height, TRANSFORM.width>>,
     mode |-> image.mode, content |-> image.content]

\* The exception __getitem__(idx) raises, "" when it returns.
GetItemRaises(idx) ==
    IF ImgPath(IMAGE_FOLDER, idx) \notin DOMAIN image_dir THEN "FileNotFoundError"
    ELSE IF OneHotRejects(RowLabels(idx), N_CLASSES) THEN "RuntimeError"
    ELSE ""

GetItemImage(idx) == Transform(ConvertRGB(image_dir[ImgPath(IMAGE_FOLDER, idx)]))

GetItemLabels(idx) == FlattenRows(OneHot(RowLabels(idx), N_CLASSES), N_CLASSES)

\* __getitem__(idx) when it returns: (image, encoded_labels).
GetItem(idx) == <<GetItemImage(idx), GetItemLabels(idx)>>

(***************************************************************************)
(* random_split, Subset and DataLoader.                                    *)
(***************************************************************************)
\* Rounding to the nearest integer; not what int() does.
TrainSize_Round(n) == (8 * n + 5) \div 10

\* int(0.8 * n): the product is never below the exact 4n/5, so the
\* truncation is the floor of 8n/10.
TrainSize(n) == (8 * n) \div 10

\* A fifth of the dataset, truncated; not what the subtraction gives.
TestSize_Fifth(n, ts) == (2 * n) \div 10

\* len(dataset) - train_size
TestSize(n, ts) == n - ts

\* random_split: indices[offset - length : offset] per length, offset the
\* running sum of the lengths.
RandomSplit(indices, lengths) ==
    [k \in 1..Len(lengths) |->
        LET offset == SumSeq(SubSeq(lengths, 1, k))
        IN  Slice(indices, offset - lengths[k], offset)]

\* The number of minibatches of a loader over `size` samples (drop_last off).
NumBatches(size) == (size + BATCH_SIZE - 1) \div BATCH_SIZE

\* The dataset indices of the next minibatch: the next BATCH_SIZE positions
\* of the sampler's order, each through Subset.__getitem__.
BatchSrc(indices, ord, p) ==
    [k \in 1..(Min(p + BATCH_SIZE, Len(ord)) - p) |-> indices[ord[p + k] + 1]]

\* The exception fetching the items of a minibatch raises: that of the first
\* item that fails.
FetchRaises(src) ==
    IF \A k \in 1..Len(src) : GetItemRaises(src[k]) = "" THEN ""
    ELSE GetItemRaises(src[CHOOSE k \in 1..Len(src) :
                              /\ GetItemRaises(src[k]) # ""
                              /\ \A j \in 1..(k - 1) : GetItemRaises(src[j]) = ""])

\* default_collate: the items stacked along a new first dimension.
CollateImages(src) == Tensor(<<Len(src)>> \o GetItemImage(src[1]).shape, src, <<>>)

\* The width of encoded_labels: the one-hot tensor (len, num_classes) flattened.
EncodedWidth(idx) == Len(RowLabels(idx)) * N_CLASSES

CollateLabels(src) == Tensor(<<Len(src), EncodedWidth(src[1])>>, src, <<>>)

\* The values of a collated label tensor, one flat row per sample.
LabelValues(t) == [k \in 1..Len(t.src) |-> GetItemLabels(t.src[k])]

(***************************************************************************)
(* The optimizer and the loss.                                             *)
(***************************************************************************)
\* A zero_grad that leaves the gradients in place; not what the optimizer does.
ZeroGrad_Keep(g) == g

\* optimizer.zero_grad()
ZeroGrad(g) == <<>>

\* loss.backward(): the gradient of l is added to .grad.
Backward(g, l) == Append(g, l)

\* optimizer.step(): Adam updates every parameter that has a gradient.
OptimizerStep(w, g) == IF g = <<>> THEN w ELSE Weights(w.origin, w.steps + 1)

\* A forward pass that updates the parameters; not what forward does.
ParamsAfterForward_Update(w) == Weights(w.origin, w.steps + 1)

\* forward() reads the parameters and leaves them as they are.
ParamsAfterForward(w) == w

(***************************************************************************)
(* main(): the split, the loaders, the model.                              *)
(***************************************************************************)
PureIdle ==
    /\ oh_pc = "" /\ oh_labels = <<>> /\ oh_encoded = <<>> /\ oh_decoded = <<>>
    /\ fw_pc = "" /\ fw_in = <<>> /\ fw_x = <<>>

\* The program's variables before main() or an importer has done anything.
MainStart ==
    /\ error = ""
    /\ train_size = 0 /\ test_size = 0
    /\ train_indices = <<>> /\ test_indices = <<>>
    /\ params = Unbuilt /\ training = TRUE /\ grad = <<>>
    /\ episode = 0 /\ total_loss = 0
    /\ order = <<>> /\ pos = 0
    /\ screenshots = NoTensor /\ labels = NoTensor /\ output = NoTensor
    /\ loss = NoLoss
    /\ correct = 0 /\ total = 0
    /\ decoded_output = <<>> /\ decoded_labels = <<>>
    /\ accuracy = <<0, 0>>
    /\ stdout = <<>>
    /\ op = "" /\ trace = <<>> /\ last_step = Unbuilt /\ epoch_seen = <<>>
    /\ eval_seen = [output |-> <<>>, labels |-> <<>>]

\* The file is run as a script (main() at line 205, on the training data it
\* finds) or imported by an inference program; the weight file is absent or
\* left by an earlier run.
Init ==
    /\ \/ /\ entry = "__main__" /\ pc = "split"
          /\ \E n \in DatasetLens, fault \in Faults :
                /\ visible_states = CsvTable(n, fault)
                /\ image_dir = ScreenshotDir(n, IF fault = "missing_image" THEN {0} ELSE {})
       \/ /\ entry = "import" /\ pc = "import"
          /\ visible_states = <<>>
          /\ image_dir = ScreenshotDir(0, {})
    /\ weight_file \in {NoFile, FileOf(Weights("previous_run", 0))}
    /\ MainStart
    /\ PureIdle

\* An exception that is swallowed, the run going on to save_model; not what
\* Python does.
Abort_Continue(exception) == pc' = "save_model" /\ error' = exception

\* An uncaught exception ends the run where it is raised.
Abort(exception) == pc' = "aborted" /\ error' = exception

\* lines 174-176
Split ==
    /\ pc = "split"
    /\ \E indices \in RandPerms(DatasetLen) :
        LET ts == TrainSize(DatasetLen)
            parts == RandomSplit(indices, <<ts, TestSize(DatasetLen, ts)>>)
        IN  /\ train_size' = ts
            /\ test_size' = TestSize(DatasetLen, ts)
            /\ train_indices' = parts[1]
            /\ test_indices' = parts[2]
    /\ pc' = "loaders" /\ op' = "random_split"
    /\ UNCHANGED <<fileVars, error, modelVars, trainVars, iterVars, evalVars,
                   stdout, histVars, pureVars>>

\* lines 179-180.  DataLoader(shuffle=True) builds a RandomSampler, which in
\* some releases of the library rejects an empty dataset (ValueError:
\* num_samples should be a positive integer value) and in others accepts it.
MakeLoaders ==
    /\ pc = "loaders"
    /\ \/ pc' = "construct" /\ error' = error
       \/ train_size = 0 /\ Abort("ValueError")
    /\ op' = "DataLoader"
    /\ UNCHANGED <<fileVars, splitVars, modelVars, trainVars, iterVars, evalVars,
                   stdout, histVars, pureVars>>

\* lines 183-196: the model with freshly initialised parameters, Adam, the
\* loss, the Trainer.
Construct ==
    /\ pc = "construct"
    /\ params' = Weights("init", 0) /\ training' = TRUE /\ grad' = <<>>
    /\ pc' = "train" /\ op' = "__init__"
    /\ UNCHANGED <<fileVars, error, splitVars, trainVars, iterVars, evalVars,
                   stdout, histVars, pureVars>>

(***************************************************************************)
(* Trainer.train.                                                          *)
(***************************************************************************)
\* line 112
TrainEnter ==
    /\ pc = "train"
    /\ training' = TRUE
    /\ episode' = 0
    /\ trace' = Append(trace, "train")
    /\ pc' = "episode" /\ op' = "model.train"
    /\ UNCHANGED <<fileVars, error, splitVars, params, grad, total_loss, screenshots,
                   labels, output, loss, iterVars, evalVars, stdout, last_step,
                   epoch_seen, eval_seen,
                   pureVars>>

\* lines 113-115: the next episode starts with a zero loss and a fresh
\* shuffled pass over the training subset; after the last one train returns.
EpisodeLoop ==
    /\ pc = "episode"
    /\ \/ /\ episode < EPISODES
          /\ total_loss' = 0
          /\ order' \in SamplerOrders(train_size)
          /\ pos' = 0
          /\ epoch_seen' = <<>>
          /\ pc' = "fetch"
          /\ trace' = trace
       \/ /\ episode >= EPISODES
          /\ trace' = Append(trace, "train.return")
          /\ pc' = "evaluate"
          /\ UNCHANGED <<total_loss, order, pos, epoch_seen>>
    /\ op' = "range"
    /\ UNCHANGED <<fileVars, error, splitVars, modelVars, episode, screenshots, labels,
                   output, loss, evalVars, stdout, last_step, eval_seen,
                   pureVars>>

\* line 115: the loader hands out the next minibatch, or is exhausted.
TrainFetch ==
    /\ pc = "fetch"
    /\ IF pos >= Len(order)
       THEN /\ pc' = "log" /\ error' = error
            /\ UNCHANGED <<screenshots, labels, pos, epoch_seen>>
       ELSE \E src \in {BatchSrc(train_indices, order, pos)} :
            \E raised \in {FetchRaises(src)} :
                IF raised # ""
                THEN /\ Abort(raised)
                     /\ UNCHANGED <<screenshots, labels, pos, epoch_seen>>
                ELSE /\ screenshots' = CollateImages(src)
                     /\ labels' = CollateLabels(src)
                     /\ pos' = pos + Len(src)
                     /\ epoch_seen' = epoch_seen \o src
                     /\ pc' = "forward" /\ error' = error
    /\ op' = "__getitem__"
    /\ UNCHANGED <<fileVars, splitVars, modelVars, episode, total_loss, output, loss,
                   order, evalVars, stdout, trace, last_step, eval_seen,
                   pureVars>>

\* line 116
TrainForward ==
    /\ pc = "forward"
    /\ params' = ParamsAfterForward(params)
    /\ IF ForwardShape(screenshots.shape) = ShapeError
       THEN Abort("RuntimeError") /\ output' = output
       ELSE /\ output' = Tensor(ForwardShape(screenshots.shape), screenshots.src, <<>>)
            /\ pc' = "loss" /\ error' = error
    /\ op' = "forward"
    /\ UNCHANGED <<fileVars, splitVars, training, grad, episode, total_loss, screenshots,
                   labels, loss, iterVars, evalVars, stdout, histVars,
                   pureVars>>

\* line 117: BCELoss refuses a target whose size differs from the input's.
TrainLoss ==
    /\ pc = "loss"
    /\ IF output.shape # labels.shape
       THEN Abort("ValueError") /\ loss' = loss
       ELSE /\ loss' = [episode |-> episode, batch |-> NumBatches(pos)]
            /\ pc' = "zero_grad" /\ error' = error
    /\ op' = "loss_fn"
    /\ UNCHANGED <<fileVars, splitVars, modelVars, episode, total_loss, screenshots,
                   labels, output, iterVars, evalVars, stdout, histVars,
                   pureVars>>

\* line 118
TrainZeroGrad ==
    /\ pc = "zero_grad"
    /\ grad' = ZeroGrad(grad)
    /\ pc' = "backward" /\ op' = "zero_grad"
    /\ UNCHANGED <<fileVars, error, splitVars, params, training, trainVars, iterVars,
                   evalVars, stdout, histVars, pureVars>>

\* line 119
TrainBackward ==
    /\ pc = "backward"
    /\ grad' = Backward(grad, loss)
    /\ pc' = "step" /\ op' = "backward"
    /\ UNCHANGED <<fileVars, error, splitVars, params, training, trainVars, iterVars,
                   evalVars, stdout, histVars, pureVars>>

\* line 120
TrainStep ==
    /\ pc = "step"
    /\ params' = OptimizerStep(params, grad)
    /\ last_step' = OptimizerStep(params, grad)
    /\ pc' = "accumulate" /\ op' = "optimizer.step"
    /\ UNCHANGED <<fileVars, error, splitVars, training, grad, trainVars, iterVars,
                   evalVars, stdout, trace, epoch_seen, eval_seen,
                   pureVars>>

\* line 121: total_loss counts the losses summed into it.
TrainAccumulate ==
    /\ pc = "accumulate"
    /\ total_loss' = total_loss + 1
    /\ pc' = "fetch" /\ op' = "loss.item"
    /\ UNCHANGED <<fileVars, error, splitVars, modelVars, episode, screenshots, labels,
                   output, loss, iterVars, evalVars, stdout, histVars,
                   pureVars>>

\* line 122
TrainLog ==
    /\ pc = "log"
    /\ stdout' = Append(stdout, <<"Episode", episode + 1, EPISODES, total_loss>>)
    /\ episode' = episode + 1
    /\ pc' = "episode" /\ op' = "print"
    /\ UNCHANGED <<fileVars, error, splitVars, modelVars, total_loss, screenshots,
                   labels, output, loss, iterVars, evalVars, histVars,
                   pureVars>>

Train ==
    \/ TrainEnter \/ EpisodeLoop \/ TrainFetch \/ TrainForward \/ TrainLoss
    \/ TrainZeroGrad \/ TrainBackward \/ TrainStep \/ TrainAccumulate \/ TrainLog

(***************************************************************************)
(* The outputs of the network.                                             *)
(***************************************************************************)
\* A flat output row that scores class pred[i] highest in group i, the next
\* class second and every other class lowest (sigmoid levels 2 > 1 > 0).
Scores(pred) ==
    [j \in 1..(Len(pred) * N_CLASSES) |->
        LET i == ((j - 1) \div N_CLASSES) + 1
            c == (j - 1) % N_CLASSES
        IN  IF c = pred[i] THEN 2 ELSE IF c = (pred[i] + 1) % N_CLASSES THEN 1 ELSE 0]

\* The same score for every class of every cell.
FlatScores == [j \in 1..(N_FEATURES * N_CLASSES) |-> 1]

\* The board of screenshot idx: N_FEATURES cells.
Board(idx) == [i \in 1..N_FEATURES |-> CellLabel(idx, i)]

\* The values forward() may return for a batch: the same kind of answer for
\* each of its samples, or the constant output.
NetOutputs(src) ==
    { [k \in 1..Len(src) |-> FlatScores] }
    \cup { [k \in 1..Len(src) |-> Scores(Board(src[k]))] }
    \cup { [k \in 1..Len(src) |->
              Scores([i \in 1..N_FEATURES |->
                        IF i = 1 /\ k = 1 THEN (Board(src[k])[i] + 1) % N_CLASSES
                        ELSE Board(src[k])[i]])] }
    \cup { [k \in 1..Len(src) |->
              Scores([i \in 1..N_FEATURES |-> (Board(src[k])[i] + 1) % N_CLASSES])] }

(***************************************************************************)
(* Trainer.evaluate.                                                       *)
(***************************************************************************)
\* A count of every cell compared; not what the comparison sums.
CountEqual_All(a, b) == Len(a)

\* (decoded_output == decoded_labels).sum().item()
CountEqual(a, b) == Cardinality({g \in 1..Len(a) : a[g] = b[g]})

\* correct / total * 100, as the fraction <<numerator, denominator>>.
Accuracy(c, t) == <<c * 100, t>>

\* lines 128-132: eval mode, zeroed counters, a sequential pass over the
\* test subset.
EvalEnter ==
    /\ pc = "evaluate"
    /\ training' = FALSE
    /\ correct' = 0 /\ total' = 0
    /\ order' = SequentialOrder(test_size) /\ pos' = 0
    /\ eval_seen' = [output |-> <<>>, labels |-> <<>>]
    /\ trace' = Append(trace, "evaluate")
    /\ pc' = "eval_fetch" /\ op' = "model.eval"
    /\ UNCHANGED <<fileVars, error, splitVars, params, grad, trainVars, decoded_output,
                   decoded_labels, accuracy, stdout, last_step, epoch_seen,
                   pureVars>>

\* line 132
EvalFetch ==
    /\ pc = "eval_fetch"
    /\ IF pos >= Len(order)
       THEN /\ pc' = "eval_accuracy" /\ error' = error
            /\ UNCHANGED <<screenshots, labels, pos>>
       ELSE \E src \in {BatchSrc(test_indices, order, pos)} :
            \E raised \in {FetchRaises(src)} :
                IF raised # ""
                THEN /\ Abort(raised)
                     /\ UNCHANGED <<screenshots, labels, pos>>
                ELSE /\ screenshots' = CollateImages(src)
                     /\ labels' = CollateLabels(src)
                     /\ pos' = pos + Len(src)
                     /\ pc' = "eval_forward" /\ error' = error
    /\ op' = "__getitem__"
    /\ UNCHANGED <<fileVars, splitVars, modelVars, episode, total_loss, output, loss,
                   order, evalVars, stdout, histVars, pureVars>>

\* line 133
EvalForward ==
    /\ pc = "eval_forward"
    /\ params' = ParamsAfterForward(params)
    /\ IF ForwardShape(screenshots.shape) = ShapeError
       THEN Abort("RuntimeError") /\ output' = output
       ELSE /\ \E values \in NetOutputs(screenshots.src) :
                output' = Tensor(ForwardShape(screenshots.shape), screenshots.src, values)
            /\ pc' = "eval_decode_output" /\ error' = error
    /\ op' = "forward"
    /\ UNCHANGED <<fileVars, splitVars, training, grad, episode, total_loss, screenshots,
                   labels, loss, iterVars, evalVars, stdout, histVars,
                   pureVars>>

\* line 134
EvalDecodeOutput ==
    /\ pc = "eval_decode_output"
    /\ decoded_output' = Decode(Flatten(output.values))
    /\ pc' = "eval_decode_labels" /\ op' = "torch.max"
    /\ UNCHANGED <<fileVars, error, splitVars, modelVars, trainVars, iterVars, correct,
                   total, decoded_labels, accuracy, stdout, histVars,
                   pureVars>>

\* line 135
EvalDecodeLabels ==
    /\ pc = "eval_decode_labels"
    /\ decoded_labels' = Decode(Flatten(LabelValues(labels)))
    /\ pc' = "eval_total" /\ op' = "torch.max"
    /\ UNCHANGED <<fileVars, error, splitVars, modelVars, trainVars, iterVars, correct,
                   total, decoded_output, accuracy, stdout, histVars,
                   pureVars>>

\* line 136
EvalTotal ==
    /\ pc = "eval_total"
    /\ total' = total + Len(decoded_labels)
    /\ pc' = "eval_correct" /\ op' = "numel"
    /\ UNCHANGED <<fileVars, error, splitVars, modelVars, trainVars, iterVars, correct,
                   decoded_output, decoded_labels, accuracy, stdout, histVars, pureVars>>

\* line 137: == refuses two vectors of different lengths (neither of length 1).
EvalCorrect ==
    /\ pc = "eval_correct"
    /\ IF Len(decoded_output) # Len(decoded_labels)
       THEN Abort("RuntimeError") /\ correct' = correct /\ eval_seen' = eval_seen
       ELSE /\ correct' = correct + CountEqual(decoded_output, decoded_labels)
            /\ eval_seen' = [output |-> eval_seen.output \o decoded_output,
                             labels |-> eval_seen.labels \o decoded_labels]
            /\ pc' = "eval_fetch" /\ error' = error
    /\ op' = "sum"
    /\ UNCHANGED <<fileVars, splitVars, modelVars, trainVars, iterVars, total,
                   decoded_output, decoded_labels, accuracy, stdout, trace, last_step,
                   epoch_seen, pureVars>>

\* line 138
EvalAccuracy ==
    /\ pc = "eval_accuracy"
    /\ IF total = 0
       THEN Abort("ZeroDivisionError") /\ accuracy' = accuracy
       ELSE /\ accuracy' = Accuracy(correct, total)
            /\ pc' = "eval_print" /\ error' = error
    /\ op' = "divide"
    /\ UNCHANGED <<fileVars, splitVars, modelVars, trainVars, iterVars, correct, total,
                   decoded_output, decoded_labels, stdout, histVars,
                   pureVars>>

\* lines 139-140
EvalReturn ==
    /\ pc = "eval_print"
    /\ stdout' = Append(stdout, <<"Test Accuracy", accuracy>>)
    /\ trace' = Append(trace, "evaluate.return")
    /\ pc' = "save_model" /\ op' = "print"
    /\ UNCHANGED <<fileVars, error, splitVars, modelVars, trainVars, iterVars, evalVars,
                   last_step, epoch_seen, eval_seen,
                   pureVars>>

Evaluate ==
    \/ EvalEnter \/ EvalFetch \/ EvalForward \/ EvalDecodeOutput \/ EvalDecodeLabels
    \/ EvalTotal \/ EvalCorrect \/ EvalAccuracy \/ EvalReturn

(***************************************************************************)
(* Trainer.save_model and Trainer.print_weights.                           *)
(***************************************************************************)
\* The parameter values at construction; not what state_dict returns.
StateDict_Initial(w) == Weights(w.origin, 0)

\* self.model.state_dict(): the current parameter values.
StateDict(w) == w

\* lines 146-147: torch.save creates or overwrites the file.
SaveModel ==
    /\ pc = "save_model"
    /\ weight_file' = FileOf(StateDict(params))
    /\ stdout' = Append(stdout, <<"Model weights saved to", "./weights/visible_cnn.pth">>)
    /\ trace' = trace \o <<"save_model", "save_model.return">>
    /\ pc' = "print_weights" /\ op' = "save_model"
    /\ UNCHANGED <<entry, visible_states, image_dir, error, splitVars, modelVars, trainVars,
                   iterVars, evalVars, last_step, epoch_seen, eval_seen,
                   pureVars>>

\* named_parameters(): weight and bias of the five layers.
ParameterNames ==
    <<"conv1.weight", "conv1.bias", "conv2.weight", "conv2.bias", "conv3.weight",
      "conv3.bias", "fc1.weight", "fc1.bias", "fc2.weight", "fc2.bias">>

\* lines 153-154
PrintWeights ==
    /\ pc = "print_weights"
    /\ stdout' = stdout \o [k \in 1..Len(ParameterNames) |->
                              <<"Layer", ParameterNames[k], params>>]
    /\ trace' = trace \o <<"print_weights", "print_weights.return">>
    /\ pc' = "done" /\ op' = "print_weights"
    /\ UNCHANGED <<fileVars, error, splitVars, modelVars, trainVars, iterVars, evalVars,
                   last_step, epoch_seen, eval_seen,
                   pureVars>>

(***************************************************************************)
(* The module imported by an inference program (line 204 keeps main() from *)
(* running): it builds a VoltorbFlipCNN and calls load_weights and predict *)
(* in any order.                                                           *)
(***************************************************************************)
\* lines 22-31
Instantiate ==
    /\ pc = "import"
    /\ params' = Weights("init", 0) /\ training' = TRUE /\ grad' = <<>>
    /\ pc' = "model" /\ op' = "__init__"
    /\ UNCHANGED <<fileVars, error, splitVars, trainVars, iterVars, evalVars, stdout,
                   histVars, pureVars>>

\* load_state_dict(d): every parameter takes the value stored in d.
LoadStateDict(w, d) == d

\* lines 56-57: torch.load raises when there is no file at MODEL_PATH.
LoadWeights ==
    /\ pc = "model"
    /\ IF weight_file.exists
       THEN /\ params' = LoadStateDict(params, weight_file.state_dict)
            /\ pc' = pc /\ error' = error
       ELSE /\ params' = params
            /\ Abort("FileNotFoundError")
    /\ op' = "load_weights"
    /\ UNCHANGED <<fileVars, splitVars, training, grad, trainVars, iterVars, evalVars,
                   stdout, histVars, pureVars>>

\* The images handed to predict.
InputImages == {Screenshot(k) : k \in 0..(MaxSeed - 1)}

\* lines 59-70: eval mode, the image through TRANSFORM as a batch of one,
\* forward, arg-max per group of N_CLASSES.
Predict ==
    /\ pc = "model"
    /\ training' = FALSE
    /\ params' = ParamsAfterForward(params)
    /\ \E input_image \in InputImages :
       \E x \in {<<1>> \o Transform(ConvertRGB(input_image)).shape} :
       \E values \in NetOutputs(<<input_image.content>>) :
            /\ ForwardShape(x) # ShapeError
            /\ output' = Tensor(ForwardShape(x), <<input_image.content>>, values)
            /\ decoded_output' = Decode(Flatten(values))
    /\ op' = "predict"
    /\ UNCHANGED <<fileVars, pc, error, splitVars, grad, episode, total_loss,
                   screenshots, labels, loss, iterVars, correct, total, decoded_labels,
                   accuracy, stdout, histVars, pureVars>>

Inference == Instantiate \/ LoadWeights \/ Predict

Main == Split \/ MakeLoaders \/ Construct \/ Train \/ Evaluate \/ SaveModel \/ PrintWeights

Next == Main \/ Inference

Spec == Init /\ [][Next]_vars

(***************************************************************************)
(* One-hot encoding and arg-max decoding of a label vector on their own.   *)
(***************************************************************************)
\* Label vectors of N_FEATURES entries: a board with one cell set to any
\* class index, the out-of-range index N_CLASSES included.
LabelVectors ==
    {[Board(r) EXCEPT ![p] = v] :
        r \in 0..(MaxSeed - 1), p \in 1..N_FEATURES, v \in 0..N_CLASSES}

MainOff ==
    /\ entry = "off" /\ pc = "off"
    /\ visible_states = <<>> /\ image_dir = ScreenshotDir(0, {})
    /\ weight_file = NoFile
    /\ MainStart

InitOneHot ==
    /\ MainOff
    /\ oh_pc = "labels" /\ oh_labels \in LabelVectors
    /\ oh_encoded = <<>> /\ oh_decoded = <<>>
    /\ fw_pc = "" /\ fw_in = <<>> /\ fw_x = <<>>

\* line 87: F.one_hot(torch.tensor(labels), num_classes=N_CLASSES).flatten()
OhEncode ==
    /\ oh_pc = "labels"
    /\ IF OneHotRejects(oh_labels, N_CLASSES)
       THEN oh_pc' = "raised" /\ oh_encoded' = oh_encoded
       ELSE /\ oh_encoded' = FlattenRows(OneHot(oh_labels, N_CLASSES), N_CLASSES)
            /\ oh_pc' = "encoded"
    /\ UNCHANGED <<fileVars, mainVars, oh_labels, oh_decoded, fw_pc, fw_in, fw_x>>

\* line 135: torch.max(labels.view(-1, N_CLASSES), 1)
OhDecode ==
    /\ oh_pc = "encoded"
    /\ oh_decoded' = Decode(oh_encoded)
    /\ oh_pc' = "decoded"
    /\ UNCHANGED <<fileVars, mainVars, oh_labels, oh_encoded, fw_pc, fw_in, fw_x>>

NextOneHot == OhEncode \/ OhDecode

SpecOneHot == InitOneHot /\ [][NextOneHot]_vars

(***************************************************************************)
(* VoltorbFlipCNN.forward on its own, layer by layer.                      *)
(***************************************************************************)
\* The inputs: batches of grey or RGB images of a few sizes.
InputShapes ==
    {<<b, c, h, h>> : b \in 1..MaxBatch, c \in {1, 3}, h \in {28, 32, 33}}

InitForward ==
    /\ MainOff
    /\ oh_pc = "" /\ oh_labels = <<>> /\ oh_encoded = <<>> /\ oh_decoded = <<>>
    /\ fw_pc = "conv1" /\ fw_in \in InputShapes /\ fw_x = fw_in

\* One statement of forward: x becomes y, or the layer raises.
FwStep(from, to, y) ==
    /\ fw_pc = from
    /\ IF y = ShapeError
       THEN fw_pc' = "raised" /\ fw_x' = fw_x
       ELSE fw_pc' = to /\ fw_x' = y
    /\ UNCHANGED <<fileVars, mainVars, oh_pc, oh_labels, oh_encoded, oh_decoded, fw_in>>

\* F.relu and F.sigmoid keep the shape.
Elementwise(x) == x

\* line 45
FwConv1 == FwStep("conv1", "pool1", Elementwise(Conv2d(conv1, fw_x)))
\* line 46
FwPool1 == FwStep("pool1", "conv2", MaxPool2d(fw_x, 2))
\* line 47
FwConv2 == FwStep("conv2", "pool2", Elementwise(Conv2d(conv2, fw_x)))
\* line 48
FwPool2 == FwStep("pool2", "conv3", MaxPool2d(fw_x, 2))
\* line 49
FwConv3 == FwStep("conv3", "view", Elementwise(Conv2d(conv3, fw_x)))
\* line 50
FwView == FwStep("view", "fc1", ViewFlat(fw_x))
\* line 51: fc1 was built with in_features = self.flattened_size.
FwFc1 == FwStep("fc1", "fc2", Elementwise(Linear(GetFlattenedSize, FC1_OUT, fw_x)))
\* line 52
FwFc2 == FwStep("fc2", "sigmoid", Linear(FC1_OUT, FC2_OUT, fw_x))
\* lines 53-54
FwSigmoid == FwStep("sigmoid", "returned", Elementwise(fw_x))

NextForward ==
    \/ FwConv1 \/ FwPool1 \/ FwConv2 \/ FwPool2 \/ FwConv3 \/ FwView \/ FwFc1 \/ FwFc2
    \/ FwSigmoid

SpecForward == InitForward /\ [][NextForward]_vars

(***************************************************************************)
(* Properties.                                                             *)
(***************************************************************************)
TrainPcs ==
    {"episode", "fetch", "forward", "loss", "zero_grad", "backward", "step",
     "accumulate", "log"}

TrainBatchPcs == {"forward", "loss", "zero_grad", "backward", "step", "accumulate"}

EvalPcs ==
    {"eval_fetch", "eval_forward", "eval_decode_output", "eval_decode_labels",
     "eval_total", "eval_correct", "eval_accuracy", "eval_print"}

EvalBatchPcs ==
    {"eval_forward", "eval_decode_output", "eval_decode_labels", "eval_total",
     "eval_correct"}

AfterEvalPcs == {"save_model", "print_weights", "done"}

SplitDone == entry = "__main__" /\ pc # "split"

IsPermutationOf(s, t) ==
    /\ Len(s) = Len(t)
    /\ Cardinality(Range(s)) = Len(s)
    /\ Range(s) = Range(t)

EpisodeLines == SelectSeq(stdout, LAMBDA line : line[1] = "Episode")

FullTrace ==
    <<"train", "train.return", "evaluate", "evaluate.return", "save_model",
      "save_model.return", "print_weights", "print_weights.return">>

\* C1: once main() has split the dataset, train_size is the floor of 0.8*N,
\* test_size is the rest, the two index lists have those lengths, share no
\* index and together hold exactly 0 .. N-1; the minibatches of train() come
\* from the train indices and those of evaluate() from the test indices.
C1_Partition ==
    SplitDone =>
        /\ 5 * train_size <= 4 * DatasetLen
        /\ 4 * DatasetLen < 5 * (train_size + 1)
        /\ test_size = DatasetLen - train_size
        /\ train_size + test_size = DatasetLen
        /\ Len(train_indices) = train_size
        /\ Len(test_indices) = test_size
        /\ Range(train_indices) \cap Range(test_indices) = {}
        /\ IsPermutationOf(train_indices \o test_indices, SequentialOrder(DatasetLen))
        /\ pc \in TrainBatchPcs => Range(screenshots.src) \subseteq Range(train_indices)
        /\ pc \in EvalBatchPcs => Range(screenshots.src) \subseteq Range(test_indices)

\* C1: the split is a fixed partition: C1_Partition holds in every state, and
\* no step after the split changes the sizes or the index lists.
C1_SplitIsFixedPartition ==
    /\ []C1_Partition
    /\ [][pc # "split" => UNCHANGED splitVars]_vars

\* A run over a table large enough for several minibatches in both splits
\* has finished.
C1_Witness == pc = "done" /\ train_size > BATCH_SIZE /\ test_size > BATCH_SIZE

\* C2: a label vector of N_FEATURES entries in [0, N_CLASSES) is encoded
\* without an error into N_FEATURES * N_CLASSES entries, each 0 or 1, with
\* exactly one 1 in each consecutive group of N_CLASSES, and decoding the
\* encoding by arg-max per group gives the vector back, in order.
C2_OneHotRoundTrip ==
    (/\ Len(oh_labels) = 45
     /\ \A i \in 1..Len(oh_labels) : oh_labels[i] \in 0..12) =>
        /\ oh_pc # "raised"
        /\ oh_pc \in {"encoded", "decoded"} =>
            /\ Len(oh_encoded) = 585
            /\ \A j \in 1..585 : oh_encoded[j] \in {0, 1}
            /\ \A g \in 0..44 :
                Cardinality({c \in 1..13 : oh_encoded[13 * g + c] = 1}) = 1
        /\ oh_pc = "decoded" => oh_decoded = oh_labels

\* A vector whose last cell holds the highest class has been encoded and
\* decoded.
C2_Witness == oh_pc = "decoded" /\ oh_labels[45] = 12 /\ oh_labels[1] # oh_labels[2]

\* C3: when evaluate() has computed its accuracy, total is the number of
\* cells of the test split (N_FEATURES per sample), the targets compared are
\* the test split's label rows in order, correct is the number of cells
\* whose prediction equals the target, 0 <= correct <= total, the accuracy is
\* 100 * correct / total, which lies in [0, 100], and it is exactly 100 when
\* every prediction equals its target.
C3_Accuracy ==
    (entry = "__main__" /\ pc \in {"eval_print"} \cup AfterEvalPcs) =>
        /\ total = 45 * test_size
        /\ total = Len(eval_seen.labels) /\ total = Len(eval_seen.output)
        /\ eval_seen.labels =
               Flatten([k \in 1..test_size |-> Tail(visible_states[test_indices[k] + 1])])
        /\ correct = Cardinality({g \in 1..total : eval_seen.output[g] = eval_seen.labels[g]})
        /\ 0 <= correct /\ correct <= total
        /\ accuracy[2] > 0
        /\ accuracy[1] * total = 100 * correct * accuracy[2]
        /\ 0 <= accuracy[1] /\ accuracy[1] <= 100 * accuracy[2]
        /\ eval_seen.output = eval_seen.labels => accuracy[1] = 100 * accuracy[2]

\* evaluate() has found every cell of a test split of more than one
\* minibatch predicted correctly.
C3_Witness ==
    /\ pc = "eval_print" /\ test_size > BATCH_SIZE
    /\ eval_seen.output = eval_seen.labels /\ accuracy = <<100 * total, total>>

\* C4: main() enters and leaves train, evaluate, save_model and
\* print_weights in that order, each once and each after the one before has
\* returned; the parameters evaluated, saved and printed are those the last
\* optimizer step of the last episode left.
C4_Sequence ==
    entry = "__main__" =>
        /\ Len(trace) <= Len(FullTrace)
        /\ trace = SubSeq(FullTrace, 1, Len(trace))
        /\ pc \in {"split", "loaders", "construct", "train"} => trace = <<>>
        /\ pc \in TrainPcs => trace = SubSeq(FullTrace, 1, 1)
        /\ pc = "evaluate" => trace = SubSeq(FullTrace, 1, 2)
        /\ pc \in EvalPcs => trace = SubSeq(FullTrace, 1, 3)
        /\ pc = "save_model" => trace = SubSeq(FullTrace, 1, 4)
        /\ pc = "print_weights" => trace = SubSeq(FullTrace, 1, 6)
        /\ pc = "done" => trace = FullTrace
        /\ (pc \in {"evaluate"} \cup EvalPcs \cup AfterEvalPcs /\ train_size > 0) =>
            /\ params = last_step
            /\ params.origin = "init"
            /\ params.steps % 50 = 0
            /\ 16 * params.steps >= 50 * train_size
            /\ 16 * params.steps < 50 * (train_size + 16)
        /\ (pc \in {"print_weights", "done"} /\ train_size > 0) =>
            /\ weight_file = FileOf(last_step)
        /\ (pc = "done" /\ train_size > 0) =>
            \A k \in 1..10 : stdout[Len(stdout) - 10 + k] = <<"Layer", ParameterNames[k], last_step>>

\* A run that took optimizer steps has gone through all four operations.
C4_Witness == pc = "done" /\ params.steps >= 50 /\ weight_file = FileOf(params)

\* C5 as stated: only the optimizer step changes the parameters of a model.
C5_OnlyOptimizerStep ==
    [][(params # Unbuilt /\ params' # params) => op' = "optimizer.step"]_vars

\* C5 amended: the parameters of a model are changed only by the optimizer
\* step of the training loop and by load_weights, which sets them to the
\* values stored in the weight file; forward, predict, evaluate, save_model,
\* print_weights and dataset indexing change none.
C5_OnlyStepOrLoad ==
    [][(params # Unbuilt /\ params' # params) =>
          \/ op' = "optimizer.step" /\ pc = "step"
          \/ /\ op' = "load_weights" /\ weight_file.exists
             /\ params' = weight_file.state_dict]_vars

\* load_weights has replaced freshly initialised parameters by the file's.
C5_Witness ==
    /\ entry = "import" /\ op = "load_weights"
    /\ params = Weights("previous_run", 0) /\ weight_file = FileOf(params)

\* C6, in each state: train() runs EPISODES episodes and returns.  In each episode every
\* training sample is fetched once, in ceil(train_size / BATCH_SIZE)
\* minibatches; a minibatch goes through forward, loss, zero_grad, backward,
\* step in that order, and the step uses the gradient of that minibatch's
\* loss alone; one loss line is printed per episode, after its last
\* minibatch; train() is never stuck.
C6_Train ==
    entry = "__main__" =>
        /\ pc \in TrainPcs =>
            /\ episode \in 0..50
            /\ Len(EpisodeLines) = episode
            /\ ENABLED Main
        /\ pc \in {"fetch", "log"} \cup TrainBatchPcs =>
            /\ episode < 50
            /\ Len(epoch_seen) = pos
            /\ Cardinality(Range(epoch_seen)) = pos
            /\ Range(epoch_seen) \subseteq Range(train_indices)
        /\ pc = "loss" => op = "forward"
        /\ pc = "zero_grad" => op = "loss_fn"
        /\ pc = "backward" => op = "zero_grad" /\ grad = <<>>
        /\ pc = "step" =>
            /\ op = "backward"
            /\ grad = <<loss>>
            /\ loss.episode = episode
            /\ 16 * (loss.batch - 1) < pos /\ pos <= 16 * loss.batch
        /\ pc = "accumulate" => op = "optimizer.step"
        /\ pc = "log" =>
            /\ IsPermutationOf(epoch_seen, train_indices)
            /\ 16 * total_loss >= train_size
            /\ 16 * total_loss < train_size + 16
            /\ op = "__getitem__"
        /\ pc \in {"evaluate"} \cup EvalPcs \cup AfterEvalPcs =>
            /\ episode = 50
            /\ Len(EpisodeLines) = 50
            /\ \A e \in 1..50 :
                /\ EpisodeLines[e][2] = e
                /\ 16 * EpisodeLines[e][4] >= train_size
                /\ 16 * EpisodeLines[e][4] < train_size + 16
            /\ 16 * params.steps >= 50 * train_size
            /\ 16 * params.steps < 50 * (train_size + 16)

\* The work train() has left: the episodes to run, then the samples of the
\* episode still to fetch, then the steps left for the minibatch in hand.
TrainRank ==
    LET stage == CASE pc = "log" -> 0
                   [] pc = "fetch" -> 1
                   [] pc = "accumulate" -> 2
                   [] pc = "step" -> 3
                   [] pc = "backward" -> 4
                   [] pc = "zero_grad" -> 5
                   [] pc = "loss" -> 6
                   [] pc = "forward" -> 7
                   [] OTHER -> 0
        perEpisode == 7 * train_size + 3
    IN  IF pc \notin TrainPcs THEN -1
        ELSE IF pc = "episode" THEN (50 - episode) * perEpisode + perEpisode - 1
        ELSE (50 - episode) * perEpisode + 7 * (train_size - pos) + stage

\* C6: train() terminates after EPISODES episodes, each a single pass over
\* the minibatches in the order forward, loss, zero_grad, backward, step, with
\* one loss line: C6_Train holds in every state, and every step of train()
\* lowers TrainRank, which is never negative inside train(), so train() can
\* take only finitely many steps before it returns or raises.
C6_TrainTerminates ==
    /\ []C6_Train
    /\ [](entry = "__main__" /\ pc \in TrainPcs => TrainRank >= 0)
    /\ [][(entry = "__main__" /\ pc \in TrainPcs) => TrainRank' < TrainRank]_vars

\* train() has returned from a training split of several minibatches, the
\* last one partial.
C6_Witness ==
    /\ pc = "evaluate" /\ train_size > 2 * BATCH_SIZE /\ train_size % BATCH_SIZE # 0
    /\ Len(EpisodeLines) = 50

\* C7: forward on (B, 3, 32, 32) raises nothing and returns (B, 585); on the
\* way the shape is (B, 32, 32, 32), (B, 32, 16, 16), (B, 64, 16, 16),
\* (B, 64, 8, 8), (B, 128, 8, 8) and (B, 8192), where 8192 = 128 * 8 * 8 is
\* the size _get_flattened_size computed for fc1, and 585 is
\* N_FEATURES * N_CLASSES.
C7_ForwardShape ==
    (fw_pc # "" /\ Len(fw_in) = 4 /\ fw_in[2] = 3 /\ fw_in[3] = 32 /\ fw_in[4] = 32) =>
        LET b == fw_in[1]
        IN  /\ fw_pc # "raised"
            /\ fw_pc = "conv1" => fw_x = <<b, 3, 32, 32>>
            /\ fw_pc = "pool1" => fw_x = <<b, 32, 32, 32>>
            /\ fw_pc = "conv2" => fw_x = <<b, 32, 16, 16>>
            /\ fw_pc = "pool2" => fw_x = <<b, 64, 16, 16>>
            /\ fw_pc = "conv3" => fw_x = <<b, 64, 8, 8>>
            /\ fw_pc = "view" => fw_x = <<b, 128, 8, 8>>
            /\ fw_pc = "fc1" => fw_x = <<b, 8192>> /\ fw_x[2] = GetFlattenedSize
            /\ fw_pc = "fc2" => fw_x = <<b, 256>>
            /\ fw_pc \in {"sigmoid", "returned"} => fw_x = <<b, 585>>
            /\ fw_pc = "returned" => fw_x = ForwardShape(fw_in)
            /\ GetFlattenedSize = 128 * 8 * 8
            /\ FC2_OUT = N_FEATURES * N_CLASSES

\* forward has returned for a batch of more than one 32 x 32 RGB image.
C7_Witness == fw_pc = "returned" /\ fw_in = <<16, 3, 32, 32>> /\ fw_x = <<16, 585>>

\* C8: the dataset is as long as the label table has rows, and every sample
\* of a minibatch just fetched, by train() in its first episode or by
\* evaluate(), is the image stored as <idx>.png, converted to RGB and
\* resized to 3 x 32 x 32, with the one-hot encoding of row idx of the table
\* without its first column: 585 wide for a row of 1 + 45 columns, and
\* decoding to that row's class indices.
C8_GetItem ==
    entry = "__main__" =>
        /\ DatasetLen = Len(visible_states)
        /\ SplitDone => DatasetLen = train_size + test_size
        /\ (pc = "eval_forward" \/ (pc = "forward" /\ episode = 0)) =>
            /\ labels.src = screenshots.src
            /\ screenshots.shape = <<Len(screenshots.src), 3, 32, 32>>
            /\ \A k \in 1..Len(screenshots.src) :
                LET idx == screenshots.src[k]
                    row == visible_states[idx + 1]
                    item == GetItem(idx)
                IN  /\ idx \in 0..(DatasetLen - 1)
                    /\ item[1].content = image_dir[PngName(idx)].content
                    /\ item[1].content = idx
                    /\ item[1].mode = "RGB"
                    /\ item[1].shape = <<3, 32, 32>>
                    /\ Len(item[2]) = 13 * (Len(row) - 1)
                    /\ Len(row) = 46 => Len(item[2]) = 585 /\ labels.shape[2] = 585
                    /\ \A i \in 1..(Len(row) - 1) :
                        \A c \in 1..13 :
                            item[2][13 * (i - 1) + c] = IF c - 1 = row[i + 1] THEN 1 ELSE 0

\* evaluate() has fetched a minibatch that holds a sample with a two-digit
\* index.
C8_Witness ==
    /\ pc = "eval_forward" /\ Len(screenshots.src) > 1
    /\ \E k \in 1..Len(screenshots.src) : screenshots.src[k] >= 10

\* C9, in each state: an exception ends the run where it is raised and nothing runs after
\* it; the weight file changes only in save_model, which runs only after all
\* EPISODES episodes of train() and evaluate() have returned, so a run that
\* failed leaves the file as it found it.
C9_State ==
    entry = "__main__" =>
        /\ error # "" <=> pc = "aborted"
        /\ pc = "aborted" =>
            /\ ~ ENABLED Main
            /\ weight_file \in {NoFile, FileOf(Weights("previous_run", 0))}
            /\ "save_model" \notin Range(trace)
        /\ (weight_file.exists /\ weight_file.state_dict.origin # "previous_run") =>
            /\ pc \in {"print_weights", "done"}
            /\ episode = 50
            /\ SubSeq(trace, 1, 4) = SubSeq(FullTrace, 1, 4)

\* C9: a failure never yields a weight file: C9_State holds in every state,
\* and the only step that changes the weight file is save_model, taken with no
\* error raised, after all EPISODES episodes and after evaluate() returned.
C9_NoFileFromFailedRun ==
    /\ []C9_State
    /\ [][weight_file' # weight_file =>
            /\ pc = "save_model" /\ error = "" /\ episode = 50
            /\ trace = SubSeq(FullTrace, 1, 4)]_vars

\* evaluate() failed on a missing screenshot after a complete training; the
\* weight file of the earlier run is still there.
C9_Witness ==
    /\ pc = "aborted" /\ error = "FileNotFoundError" /\ episode = 50
    /\ trace = SubSeq(FullTrace, 1, 3)
    /\ weight_file = FileOf(Weights("previous_run", 0))

====
